---- MODULE Spec2Model ----
(***************************************************************************)
(* Storage / caching and memory-governance subsystem of ModularDashboard:  *)
(* CachedStorage over a StorageBackend, the file-backed backends and the   *)
(* StorageManager (utils/storage.py), the MemoryMonitor                    *)
(* (utils/system_monitor.py) and the compression codecs                    *)
(* (utils/compressed_cache.py).                                            *)
(*                                                                         *)
(* Strings are modelled by their structure: a backend key is the pair      *)
(* <<prefix, name>>, "cache_<k>" being <<"cache_", k>> and a module's own  *)
(* key <<"", k>>. Time is an integer clock; datetime.now() is `now`.       *)
(***************************************************************************)
EXTENDS Integers, Sequences, FiniteSets, TLC

\* ---------------------------------------------------------------- bounds
NumKeys == 2
NumLruKeys == 3
NumValues == 2
NumRawKeys == 1
MaxCapacity == 1
LruCapacity == 2
MaxTime == 2
MaxTTL == 1
DefaultTTL == 1
MaxEvictions == 1
MaxCount == 2
NumCallbacks == 2
MaxCallbacks == 2
MaxPercent == 2
MaxThreads == 2
NumNames == 1
NumModules == 1
NumFileKeys == 1
NumFileCacheKeys == 1
MaxInt == 2
MaxItems == 2
MaxDictLen == 1

\* ------------------------------------------------------ program constants
EvictBatchMax == 10
LruFraction == 10

Keys == 1..NumKeys
LruKeys == 1..NumLruKeys
Values == 1..NumValues
RawKeys == {<<"", r>> : r \in 1..NumRawKeys}
\* ttl argument of set: 0 stands for None (and for 0), both falsy in `ttl or default_ttl`
TTLs == 0..MaxTTL
\* count argument of cleanup_lru: -1 stands for None
Counts == -1..MaxCount
\* what get returns when it returns the caller's default
Default == 0

VARIABLES
    max_entries,    \* CachedStorage.max_entries
    cache,          \* CachedStorage._cache: cache key -> entry
    access_order,   \* CachedStorage._access_order
    stats,          \* CachedStorage._stats
    backend,        \* StorageBackend._data of the backend under the cache
    now,            \* the clock read by datetime.now()
    recency,        \* history: hot keys by true last use (set, or get returning the value)
    rt,             \* history: progress of a set / drop-hot-map / get round trip
    last,           \* history: the last operation, its arguments and its result
    has_psutil,     \* system_monitor.HAS_PSUTIL
    threshold,      \* MemoryMonitor.config.memory_threshold_percent
    running,        \* MemoryMonitor.running
    callbacks,      \* MemoryMonitor._cleanup_callbacks
    last_cleanup,   \* MemoryMonitor.stats.last_cleanup, -1 for None
    threads,        \* the live threads running MemoryMonitor._monitor_loop
    stopper,        \* the caller of stop_monitoring: "none", "join" (in join), "returned"
    backends,       \* StorageManager._backends: name -> backend instance
    cached_storages, \* StorageManager._cached_storages: name -> CachedStorage instance
    next_id,        \* identity of the next object constructed
    mlast,          \* history: the last StorageManager call, its arguments and its result
    fkind,          \* the class of the file-backed backend: "json" or "pickle"
    file,           \* the file at its file_path: missing, a document, or damaged
    flast,          \* history: the last operation that loads or saves the file
    codec,          \* the class of the codec: "pickle" (CompressedCache) or "json" (JsonCompressedCache)
    compression_threshold, \* CompressedCache.compression_threshold
    max_entry_size, \* CompressedCache.max_entry_size
    obj,            \* the object handed to compress
    compressed_entry, \* what compress returned or raised, None before the call
    decompressed,   \* what decompress returned, None before the call
    setter,         \* the module thread inside CachedStorage.set: its position and locals
    sweeper         \* the monitor thread inside CachedStorage.cleanup_expired: position, locals

cacheVars == <<max_entries, cache, access_order, stats, backend, now, recency, rt, last>>

monVars == <<has_psutil, threshold, running, callbacks, last_cleanup, threads, stopper>>

mgrVars == <<backends, cached_storages, next_id, mlast>>

fileVars == <<fkind, file, flast>>

codecVars == <<codec, compression_threshold, max_entry_size, obj, compressed_entry, decompressed>>

raceVars == <<setter, sweeper>>

\* what the operations of CachedStorage leave alone
nonCacheVars == <<monVars, mgrVars, fileVars, codecVars, raceVars>>

\* what the operations of MemoryMonitor leave alone
nonMonVars == <<cacheVars, mgrVars, fileVars, codecVars, raceVars>>

\* what the steps of the two threads inside a CachedStorage leave alone
otherVars == <<monVars, mgrVars, fileVars, codecVars>>

vars == <<max_entries, cache, access_order, stats, backend, now, recency, rt, last,
          has_psutil, threshold, running, callbacks, last_cleanup, threads, stopper,
          backends, cached_storages, next_id, mlast, fkind, file, flast,
          codec, compression_threshold, max_entry_size, obj, compressed_entry, decompressed,
          setter, sweeper>>

\* CompressedCache.__init__: the defaults of compression_threshold and max_entry_size
DefaultCompressionThreshold == 1024
DefaultMaxEntrySize == 5242880  \* 5 * 1024 * 1024

\* ------------------------------------------------------------- helpers
Min(a, b) == IF a < b THEN a ELSE b
Max(a, b) == IF a > b THEN a ELSE b

EmptyMap == [x \in {} |-> 0]
MapPut(f, k, v) == [x \in (DOMAIN f) \cup {k} |-> IF x = k THEN v ELSE f[x]]
MapDel(f, k) == [x \in (DOMAIN f) \ {k} |-> f[x]]

SeqSet(s) == {s[i] : i \in 1..Len(s)}

\* list.remove(x): drops the first occurrence
RECURSIVE ListRemove(_, _)
ListRemove(s, x) ==
    IF s = <<>> THEN <<>>
    ELSE IF Head(s) = x THEN Tail(s)
    ELSE <<Head(s)>> \o ListRemove(Tail(s), x)

\* list[:n]
Prefix(s, n) == SubSeq(s, 1, Min(Max(n, 0), Len(s)))

\* the elements of s that are in S, in order
RECURSIVE Keep(_, _)
Keep(s, S) ==
    IF s = <<>> THEN <<>>
    ELSE IF Head(s) \in S THEN <<Head(s)>> \o Keep(Tail(s), S)
    ELSE Keep(Tail(s), S)

\* ----------------------------------------------------- StorageBackend
\* Python's None, as a record so that it compares with entries
None == [none |-> TRUE]

BackendGet(b, key) == IF key \in DOMAIN b THEN b[key] ELSE None
\* the write is lost: nothing is stored
BackendSetLost(b, key, value) == b

BackendSet(b, key, value) == MapPut(b, key, value)
BackendDeleteResult(b, key) == key \in DOMAIN b
BackendDelete(b, key) == IF key \in DOMAIN b THEN MapDel(b, key) ELSE b
BackendClearAll(b) == EmptyMap
BackendKeys(b) == DOMAIN b

\* ------------------------------------------------------ CachedStorage
ZeroStats == [hits |-> 0, misses |-> 0, evictions |-> 0, memory_usage |-> 0]

IsExpired(e, t) ==
    IF "expires_at" \notin DOMAIN e THEN TRUE ELSE t > e.expires_at

GetCacheKey(k) == <<"cache_", k>>

StartsWithCache(key) == key[1] = "cache_"

\* truthiness of what backend.get returned: None is falsy, an entry dict is not
Truthy(d) == d # None

\* the restore path without its expiry test
RestoreOkNoTtl(cache_data, t) == Truthy(cache_data)

\* the test of get on what backend.get returned
RestoreOk(cache_data, t) == Truthy(cache_data) /\ ~IsExpired(cache_data, t)

\* a restored entry given a new expiry, default_ttl from the restoration
RestoredEntryRenewed(cache_data, t) == [cache_data EXCEPT !.expires_at = t + DefaultTTL]

\* the entry get puts into the hot map on the restore path: the backend's own
RestoredEntry(cache_data, t) == cache_data

\* _remove_from_cache on the pair (hot map, order list)
RemoveFromCache(st, key) ==
    [st EXCEPT !.cache = IF key \in DOMAIN st.cache THEN MapDel(st.cache, key) ELSE st.cache,
               !.order = IF key \in SeqSet(st.order) THEN ListRemove(st.order, key) ELSE st.order]

UpdateAccessOrder(order, key) ==
    (IF key \in SeqSet(order) THEN ListRemove(order, key) ELSE order) \o <<key>>

\* the loop of cleanup_lru over keys_to_remove
RECURSIVE LruLoop(_, _)
LruLoop(st, ks) ==
    IF ks = <<>> THEN st
    ELSE LET r == RemoveFromCache(st, Head(ks))
         IN LruLoop([r EXCEPT !.evictions = r.evictions + 1], Tail(ks))

\* cleanup_lru(count), count = -1 for None
CleanupLruFn(st, count) ==
    LET c == IF count = -1
             THEN Max(1, Cardinality(DOMAIN st.cache) \div LruFraction)
             ELSE count
    IN LruLoop(st, Prefix(st.order, c))

EnsureCacheSpace(st, cap) ==
    LET n == Cardinality(DOMAIN st.cache)
    IN IF n >= cap
       THEN CleanupLruFn(st, Min(EvictBatchMax, n - cap + 1))
       ELSE st

\* the second loop of cleanup_expired, over expired_keys
RECURSIVE ExpiredLoop(_, _)
ExpiredLoop(st, ks) ==
    IF ks = {} THEN st
    ELSE LET k == CHOOSE x \in ks : TRUE
         IN ExpiredLoop(RemoveFromCache(st, k), ks \ {k})

\* an entry counted as expired at its expires_at, not after it
ExpiredKeysEager(c, t) == {ck \in DOMAIN c : t >= c[ck].expires_at}

ExpiredKeys(c, t) == {ck \in DOMAIN c : IsExpired(c[ck], t)}

HotState == [cache |-> cache, order |-> access_order, evictions |-> stats.evictions]

NoRT == [phase |-> "none", key |-> 0, val |-> 0, exp |-> 0]

CacheKeysOf(b) == {key \in DOMAIN b : StartsWithCache(key)}

\* the record of an operation: its name, key (0 when it takes none), other argument
\* (0 when it takes none) and result (0 when it returns None), and how
\* many keys it took out of the hot map and out of the backend's cache_ keys; seq
\* tells a repeated identical operation from the one before it
OpRecord(name, k, v, r) ==
    [op |-> name, key |-> k, arg |-> v, ret |-> r, seq |-> 0,
     removed |-> [hot |-> Cardinality(DOMAIN cache \ DOMAIN cache'),
                  cold |-> Cardinality(CacheKeysOf(backend) \ CacheKeysOf(backend'))]]

Op(name, k, v, r) ==
    IF OpRecord(name, k, v, r) = last
    THEN [OpRecord(name, k, v, r) EXCEPT !.seq = 1]
    ELSE OpRecord(name, k, v, r)

\* get_stats(); hit_rate is the fraction <<numerator, denominator>>, <<0, 1>> for 0.0
GetStats ==
    [hits |-> stats.hits, misses |-> stats.misses, evictions |-> stats.evictions,
     size |-> Cardinality(DOMAIN cache), max_size |-> max_entries,
     hit_rate |-> IF stats.hits + stats.misses > 0
                  THEN <<stats.hits, stats.hits + stats.misses>>
                  ELSE <<0, 1>>]

CacheInit ==
    /\ max_entries \in {MaxCapacity, LruCapacity}
    /\ cache = EmptyMap
    /\ access_order = <<>>
    /\ stats = ZeroStats
    /\ backend = EmptyMap
    /\ now = 0
    /\ recency = <<>>
    /\ rt = NoRT
    /\ last = [op |-> "init", key |-> 0, arg |-> 0, ret |-> 0, seq |-> 0,
               removed |-> [hot |-> 0, cold |-> 0]]

\* CachedStorage.get(key, default)
Get(k) ==
    LET ck == GetCacheKey(k)
        hot == ck \in DOMAIN cache
        hit == hot /\ ~IsExpired(cache[ck], now)
        c1 == IF hot /\ ~hit THEN MapDel(cache, ck) ELSE cache
        cache_data == BackendGet(backend, ck)
        restore == ~hit /\ RestoreOk(cache_data, now)
        ret == IF hit THEN cache[ck].value
               ELSE IF restore THEN cache_data.value
               ELSE Default
    IN /\ cache' = IF hit THEN cache
                   ELSE IF restore THEN MapPut(c1, ck, RestoredEntry(cache_data, now))
                   ELSE c1
       /\ recency' = IF hit \/ restore
                     THEN Keep(recency, DOMAIN cache' \ {ck}) \o <<ck>>
                     ELSE Keep(recency, DOMAIN cache')
       /\ rt' = IF rt.phase = "dropped" /\ rt.key = k /\ now <= rt.exp
                THEN [rt EXCEPT !.phase = "got"]
                ELSE NoRT
       /\ UNCHANGED <<max_entries, access_order, stats, backend, now>>
       /\ UNCHANGED nonCacheVars
       /\ last' = Op("get", k, 0, ret)

\* CachedStorage.set(key, value, ttl)
Set(k, v, ttl) ==
    LET ck == GetCacheKey(k)
        t == IF ttl = 0 THEN DefaultTTL ELSE ttl
        cache_entry == [value |-> v, expires_at |-> now + t, created_at |-> now]
        s1 == EnsureCacheSpace(HotState, max_entries)
    IN /\ s1.evictions <= MaxEvictions
       /\ cache' = MapPut(s1.cache, ck, cache_entry)
       /\ access_order' = UpdateAccessOrder(s1.order, ck)
       /\ stats' = [stats EXCEPT !.evictions = s1.evictions]
       /\ backend' = BackendSet(backend, ck, cache_entry)
       /\ recency' = Keep(recency, DOMAIN cache' \ {ck}) \o <<ck>>
       /\ rt' = [phase |-> "set", key |-> k, val |-> v, exp |-> now + t]
       /\ UNCHANGED <<max_entries, now>>
       /\ UNCHANGED nonCacheVars
       /\ last' = Op("set", k, v, 0)

\* CachedStorage.delete(key)
Delete(k) ==
    LET ck == GetCacheKey(k)
    IN /\ cache' = IF ck \in DOMAIN cache THEN MapDel(cache, ck) ELSE cache
       /\ backend' = BackendDelete(backend, ck)
       /\ recency' = Keep(recency, DOMAIN cache')
       /\ rt' = NoRT
       /\ UNCHANGED <<max_entries, access_order, stats, now>>
       /\ UNCHANGED nonCacheVars
       /\ last' = Op("delete", k, 0, BackendDeleteResult(backend, ck))

\* backend.clear() in place of the loop over the cache_ keys
ClearLoopAll(b, ks) == EmptyMap

\* the loop of clear over backend.keys()
RECURSIVE ClearLoop(_, _)
ClearLoop(b, ks) ==
    IF ks = {} THEN b
    ELSE LET key == CHOOSE x \in ks : TRUE
         IN ClearLoop(IF StartsWithCache(key) THEN BackendDelete(b, key) ELSE b, ks \ {key})

\* CachedStorage.clear()
Clear ==
    /\ cache' = EmptyMap
    /\ access_order' = <<>>
    /\ stats' = ZeroStats
    /\ backend' = ClearLoop(backend, BackendKeys(backend))
    /\ recency' = <<>>
    /\ rt' = NoRT
    /\ UNCHANGED <<max_entries, now>>
    /\ UNCHANGED nonCacheVars
    /\ last' = Op("clear", 0, 0, 0)

\* CachedStorage.cleanup_expired()
CleanupExpired ==
    LET s1 == ExpiredLoop(HotState, ExpiredKeys(cache, now))
    IN /\ cache' = s1.cache
       /\ access_order' = s1.order
       /\ recency' = Keep(recency, DOMAIN cache')
       /\ rt' = NoRT
       /\ UNCHANGED <<max_entries, stats, backend, now>>
       /\ UNCHANGED nonCacheVars
       /\ last' = Op("cleanup_expired", 0, 0, 0)

\* CachedStorage.cleanup_lru(count)
CleanupLru(count) ==
    LET s1 == CleanupLruFn(HotState, count)
    IN /\ s1.evictions <= MaxEvictions
       /\ cache' = s1.cache
       /\ access_order' = s1.order
       /\ stats' = [stats EXCEPT !.evictions = s1.evictions]
       /\ recency' = Keep(recency, DOMAIN cache')
       /\ rt' = NoRT
       /\ UNCHANGED <<max_entries, backend, now>>
       /\ UNCHANGED nonCacheVars
       /\ last' = Op("cleanup_lru", 0, count, 0)

\* a new CachedStorage over the same backend (process restart: the hot map is dropped)
Restart ==
    /\ cache' = EmptyMap
    /\ access_order' = <<>>
    /\ stats' = ZeroStats
    /\ recency' = <<>>
    /\ rt' = IF rt.phase \in {"set", "dropped"} THEN [rt EXCEPT !.phase = "dropped"] ELSE NoRT
    /\ UNCHANGED <<max_entries, backend, now>>
    /\ UNCHANGED nonCacheVars
    /\ last' = Op("restart", 0, 0, 0)

\* the module's own data in the same backend: StorageBackend.set through get_storage()
RawSet(key, v) ==
    /\ backend' = BackendSet(backend, key, v)
    /\ rt' = NoRT
    /\ UNCHANGED <<max_entries, cache, access_order, stats, now, recency>>
    /\ UNCHANGED nonCacheVars
    /\ last' = Op("raw_set", 0, v, 0)

\* StorageBackend.clear through get_storage()
RawClear ==
    /\ backend' = BackendClearAll(backend)
    /\ rt' = NoRT
    /\ UNCHANGED <<max_entries, cache, access_order, stats, now, recency>>
    /\ UNCHANGED nonCacheVars
    /\ last' = Op("raw_clear", 0, 0, 0)

\* time passes
Tick ==
    /\ now < MaxTime
    /\ now' = now + 1
    /\ UNCHANGED <<max_entries, cache, access_order, stats, backend, recency, rt, last>>
    /\ UNCHANGED nonCacheVars

Next ==
    \/ \E k \in Keys : Get(k)
    \/ \E k \in Keys, v \in Values, ttl \in TTLs : Set(k, v, ttl)
    \/ \E k \in Keys : Delete(k)
    \/ Clear
    \/ CleanupExpired
    \/ \E count \in Counts : CleanupLru(count)
    \/ Restart
    \/ \E key \in RawKeys, v \in Values : RawSet(key, v)
    \/ RawClear
    \/ Tick

\* MemoryMonitor.__init__, with no monitoring started
MonitorIdle ==
    /\ has_psutil = TRUE
    /\ threshold = MaxPercent
    /\ running = FALSE
    /\ callbacks = <<>>
    /\ last_cleanup = -1
    /\ threads = <<>>
    /\ stopper = "none"

\* StorageManager.__init__: no backend and no cache handed out yet
ManagerIdle ==
    /\ backends = EmptyMap
    /\ cached_storages = EmptyMap
    /\ next_id = 1
    /\ mlast = [op |-> "init", name |-> <<>>, arg |-> "", ret |-> None, created |-> FALSE, flip |-> 0]

\* no file yet at the backend's file_path, and no file operation made
NoFile == [state |-> "missing"]

NoFileOp == [op |-> "init", key |-> 0, val |-> 0, raised |-> "", ret |-> 0,
             synced |-> TRUE, flip |-> 0]

FileIdle ==
    /\ fkind = "json"
    /\ file = NoFile
    /\ flast = NoFileOp

\* CompressedCache(): the defaults, and nothing compressed yet
CodecIdle ==
    /\ codec = "pickle"
    /\ compression_threshold = DefaultCompressionThreshold
    /\ max_entry_size = DefaultMaxEntrySize
    /\ obj = None
    /\ compressed_entry = None
    /\ decompressed = None

\* no thread is inside set or inside cleanup_expired
SetterIdle == [pc |-> "idle", cache_key |-> <<>>, cache_entry |-> None]

SweeperIdle == [pc |-> "idle", used |-> 0, seen |-> {}, expired_keys |-> <<>>, raised |-> ""]

RaceIdle ==
    /\ setter = SetterIdle
    /\ sweeper = SweeperIdle

Init ==
    /\ CacheInit
    /\ max_entries = MaxCapacity
    /\ MonitorIdle
    /\ ManagerIdle
    /\ FileIdle
    /\ CodecIdle
    /\ RaceIdle

Spec == Init /\ [][Next]_vars

\* The cache at full capacity over more keys than it holds, with no clock:
\* the eviction order alone.
LruInit ==
    /\ CacheInit
    /\ max_entries = LruCapacity
    /\ MonitorIdle
    /\ ManagerIdle
    /\ FileIdle
    /\ CodecIdle
    /\ RaceIdle

LruNext ==
    \/ \E k \in LruKeys : Get(k)
    \/ \E k \in LruKeys : Set(k, 1, 0)
    \/ \E k \in LruKeys : Delete(k)
    \/ \E count \in Counts : CleanupLru(count)
    \/ Clear

LruSpec == LruInit /\ [][LruNext]_vars

\* ------------------------------------------------------- MemoryMonitor
Callbacks == 1..NumCallbacks
\* what psutil.virtual_memory() gives: a percent, or -1 when the call raises
SampleOutcomes == -1..MaxPercent

\* get_memory_usage_percent()
GetMemoryUsagePercent(psutil, outcome) ==
    IF ~psutil THEN 0
    ELSE IF outcome = -1 THEN 0
    ELSE outcome

\* the threshold compared with > in place of >=
ShouldCleanupStrict(psutil, memory_percent, limit) ==
    IF ~psutil THEN FALSE ELSE memory_percent > limit

\* should_cleanup(), given what get_memory_usage_percent returned
ShouldCleanup(psutil, memory_percent, limit) ==
    IF ~psutil THEN FALSE ELSE memory_percent >= limit

\* self._cleanup_callbacks.copy()
CopyList(l) == l

\* a thread at the top of _monitor_loop; registered, invoked, sampled, raised (the
\* index of the first callback that raised, 0 for none) and stamped (last_cleanup
\* written) are history of the thread's current cycle
NewThread ==
    [pc |-> "test", cbs |-> <<>>, i |-> 0, pct |-> 0, should |-> FALSE,
     registered |-> <<>>, invoked |-> <<>>, sampled |-> FALSE,
     raised |-> 0, stamped |-> FALSE]

Alive(th) == th.pc # "done"

ThreadIds == 1..Len(threads)

\* MemoryMonitor.start_monitoring()
StartMonitoring ==
    /\ stopper # "join"
    /\ Len(SelectSeq(threads, Alive)) < MaxThreads
    /\ IF running
       THEN UNCHANGED <<running, threads, stopper>>
       ELSE /\ running' = TRUE
            /\ threads' = Append(SelectSeq(threads, Alive), NewThread)
            /\ stopper' = "none"
    /\ UNCHANGED <<has_psutil, threshold, callbacks, last_cleanup>>
    /\ UNCHANGED nonMonVars

\* self._monitor_thread, the thread started last, as an index of threads (0 for None)
MonitorThread == Len(threads)

\* MemoryMonitor.stop_monitoring(), up to its join: the flag is cleared, and the
\* caller joins the monitor thread if there is one and it is alive
StopMonitoring ==
    /\ stopper # "join"
    /\ running' = FALSE
    /\ stopper' = IF MonitorThread # 0 /\ Alive(threads[MonitorThread])
                  THEN "join" ELSE "returned"
    /\ UNCHANGED <<has_psutil, threshold, callbacks, last_cleanup, threads>>
    /\ UNCHANGED nonMonVars

\* join(timeout=1.0) returns: the thread has terminated, or the timeout has passed
\* with the thread still alive, in its sleep, its sampling or its callbacks (a
\* thread at the loop test reads the flag at once and terminates)
JoinReturn ==
    /\ stopper = "join"
    /\ threads[MonitorThread].pc # "test"
    /\ stopper' = "returned"
    /\ UNCHANGED <<has_psutil, threshold, running, callbacks, last_cleanup, threads>>
    /\ UNCHANGED nonMonVars

\* MemoryMonitor.register_cleanup_callback(callback)
RegisterCleanupCallback(cb) ==
    /\ Len(callbacks) < MaxCallbacks
    /\ callbacks' = Append(callbacks, cb)
    /\ UNCHANGED <<has_psutil, threshold, running, last_cleanup, threads, stopper>>
    /\ UNCHANGED nonMonVars

\* MemoryMonitor.unregister_cleanup_callback(callback)
UnregisterCleanupCallback(cb) ==
    /\ callbacks' = IF cb \in SeqSet(callbacks) THEN ListRemove(callbacks, cb) ELSE callbacks
    /\ UNCHANGED <<has_psutil, threshold, running, last_cleanup, threads, stopper>>
    /\ UNCHANGED nonMonVars

\* _monitor_loop: `while self.running`
LoopTest(t) ==
    /\ threads[t].pc = "test"
    /\ threads' = [threads EXCEPT ![t] =
                     IF running THEN [NewThread EXCEPT !.pc = "check"]
                     ELSE [NewThread EXCEPT !.pc = "done"]]
    /\ UNCHANGED <<has_psutil, threshold, running, callbacks, last_cleanup, stopper>>
    /\ UNCHANGED nonMonVars

\* _monitor_loop: `if self.should_cleanup()`
CheckMemory(t, outcome) ==
    /\ threads[t].pc = "check"
    /\ LET memory_percent == GetMemoryUsagePercent(has_psutil, outcome)
           should == ShouldCleanup(has_psutil, memory_percent, threshold)
       IN threads' = [threads EXCEPT ![t] =
                        [@ EXCEPT !.pct = memory_percent,
                                  !.should = should,
                                  !.sampled = has_psutil /\ outcome # -1,
                                  !.pc = IF should THEN "copy" ELSE "sleep"]]
    /\ UNCHANGED <<has_psutil, threshold, running, callbacks, last_cleanup, stopper>>
    /\ UNCHANGED nonMonVars

\* _trigger_cleanup: the copy of the callback list under the lock
CopyCallbacks(t) ==
    /\ threads[t].pc = "copy"
    /\ threads' = [threads EXCEPT ![t] =
                     [@ EXCEPT !.cbs = CopyList(callbacks),
                               !.registered = callbacks,
                               !.i = 1,
                               !.pc = "call"]]
    /\ UNCHANGED <<has_psutil, threshold, running, callbacks, last_cleanup, stopper>>
    /\ UNCHANGED nonMonVars

\* the for loop over self._cleanup_callbacks itself, with no copy made
IterListLive(th) == callbacks

\* the list that `for callback in callbacks` iterates: the thread's local copy
IterList(th) == th.cbs

\* the callback's exception leaves the for loop: nothing catches it before
\* _monitor_loop does, which logs it and sleeps
AfterCallbackUncaught(th, raises) ==
    IF raises
    THEN [th EXCEPT !.invoked = Append(@, th.cbs[th.i]),
                    !.raised = IF @ = 0 THEN th.i ELSE @,
                    !.pc = "sleep"]
    ELSE [th EXCEPT !.invoked = Append(@, th.cbs[th.i]), !.i = @ + 1]

\* the thread after one round of `for callback in callbacks`: the callback has
\* returned, or has raised an Exception that the try inside the loop caught and logged
AfterCallback(th, raises) ==
    [th EXCEPT !.invoked = Append(@, IterList(th)[th.i]),
               !.raised = IF raises /\ @ = 0 THEN th.i ELSE @,
               !.i = @ + 1]

\* _trigger_cleanup: one round of `for callback in callbacks`
InvokeCallback(t, raises) ==
    /\ threads[t].pc = "call"
    /\ threads[t].i <= Len(IterList(threads[t]))
    /\ threads' = [threads EXCEPT ![t] = AfterCallback(threads[t], raises)]
    /\ UNCHANGED <<has_psutil, threshold, running, callbacks, last_cleanup, stopper>>
    /\ UNCHANGED nonMonVars

\* _trigger_cleanup: gc.collect() and the timestamp, after the last callback
FinishCleanup(t) ==
    /\ threads[t].pc = "call"
    /\ threads[t].i > Len(IterList(threads[t]))
    /\ last_cleanup' = now
    /\ threads' = [threads EXCEPT ![t] = [@ EXCEPT !.pc = "sleep", !.stamped = TRUE]]
    /\ UNCHANGED <<has_psutil, threshold, running, callbacks, stopper>>
    /\ UNCHANGED nonMonVars

\* _monitor_loop: time.sleep(cleanup_interval_seconds) returns
Sleep(t) ==
    /\ threads[t].pc = "sleep"
    /\ threads' = [threads EXCEPT ![t] = [@ EXCEPT !.pc = "test"]]
    /\ UNCHANGED <<has_psutil, threshold, running, callbacks, last_cleanup, stopper>>
    /\ UNCHANGED nonMonVars

MonInit ==
    /\ CacheInit
    /\ max_entries = MaxCapacity
    /\ has_psutil \in BOOLEAN
    /\ threshold \in 0..MaxPercent
    /\ running = FALSE
    /\ callbacks = <<>>
    /\ last_cleanup = -1
    /\ threads = <<>>
    /\ stopper = "none"
    /\ ManagerIdle
    /\ FileIdle
    /\ CodecIdle
    /\ RaceIdle

MonNext ==
    \/ StartMonitoring
    \/ StopMonitoring
    \/ JoinReturn
    \/ \E cb \in Callbacks : RegisterCleanupCallback(cb)
    \/ \E cb \in Callbacks : UnregisterCleanupCallback(cb)
    \/ \E t \in ThreadIds : LoopTest(t)
    \/ \E t \in ThreadIds, outcome \in SampleOutcomes : CheckMemory(t, outcome)
    \/ \E t \in ThreadIds : CopyCallbacks(t)
    \/ \E t \in ThreadIds, raises \in BOOLEAN : InvokeCallback(t, raises)
    \/ \E t \in ThreadIds : FinishCleanup(t)
    \/ \E t \in ThreadIds : Sleep(t)

MonSpec == MonInit /\ [][MonNext]_vars

\* ------------------------------------------------------ StorageManager
\* names of backends and caches: "module_<id>" is <<"module_", id>>, any other
\* name <<"", n>>
ModuleName(module_id) == <<"module_", module_id>>

Names == {<<"", n>> : n \in 1..NumNames} \cup {ModuleName(m) : m \in 1..NumModules}

SupportedTypes == {"json", "pickle", "memory"}

\* the backend_type arguments: the three kinds and one that is none of them
BackendTypes == SupportedTypes \cup {"yaml"}

ValueError == [error |-> "ValueError"]

\* the file of a file-backed backend, <<name, extension>>; <<>> for MemoryBackend
FilePath(name, backend_type) ==
    IF backend_type = "memory" THEN <<>>
    ELSE <<name, IF backend_type = "json" THEN "json" ELSE "pkl">>

\* the backend constructed for a supported backend_type
NewBackend(id, name, backend_type) ==
    [id |-> id, kind |-> backend_type, file |-> FilePath(name, backend_type)]

\* get_backend(name, backend_type) on the dict bs: the dict afterwards and what the
\* call returns or raises
GetBackendFn(bs, id, name, backend_type) ==
    IF name \notin DOMAIN bs
    THEN IF backend_type \in SupportedTypes
         THEN [backends |-> MapPut(bs, name, NewBackend(id, name, backend_type)),
               ret |-> NewBackend(id, name, backend_type), created |-> TRUE]
         ELSE [backends |-> bs, ret |-> ValueError, created |-> FALSE]
    ELSE [backends |-> bs, ret |-> bs[name], created |-> FALSE]

\* the record of a manager call; flip tells a call from the one before it
MgrOp(name_of_op, name, arg, ret, created) ==
    [op |-> name_of_op, name |-> name, arg |-> arg, ret |-> ret, created |-> created,
     flip |-> 1 - mlast.flip]

\* StorageManager.get_backend(name, backend_type)
GetBackend(name, backend_type) ==
    LET r == GetBackendFn(backends, next_id, name, backend_type)
    IN /\ backends' = r.backends
       /\ next_id' = IF r.created THEN next_id + 1 ELSE next_id
       /\ mlast' = MgrOp("get_backend", name, backend_type, r.ret, r.created)
       /\ UNCHANGED cached_storages
       /\ UNCHANGED <<cacheVars, monVars, fileVars, codecVars, raceVars>>

\* the cleanup_expired bound method of a CachedStorage instance
CleanupExpiredOf(c) == <<"cleanup_expired", c.id>>

\* the callback registered on every request of the cache, created or not
RegisterAlways(cbs, created, c) == Append(cbs, CleanupExpiredOf(c))

\* get_cached_storage: register_cleanup_callback inside `if name not in self._cached_storages`
RegisterOnCreate(cbs, created, c) ==
    IF created THEN Append(cbs, CleanupExpiredOf(c)) ELSE cbs

\* StorageManager.get_cached_storage(name, default_ttl, max_entries)
GetCachedStorage(name) ==
    LET created == name \notin DOMAIN cached_storages
        r == GetBackendFn(backends, next_id, name, "json")
        id == IF r.created THEN next_id + 1 ELSE next_id
        c == IF created THEN [id |-> id, backend |-> r.ret.id] ELSE cached_storages[name]
    IN /\ backends' = IF created THEN r.backends ELSE backends
       /\ cached_storages' = IF created THEN MapPut(cached_storages, name, c)
                             ELSE cached_storages
       /\ next_id' = IF created THEN id + 1 ELSE next_id
       /\ callbacks' = RegisterOnCreate(callbacks, created, c)
       /\ mlast' = MgrOp("get_cached_storage", name, "", c, created)
       /\ UNCHANGED <<cacheVars, fileVars, codecVars, raceVars>>
       /\ UNCHANGED <<has_psutil, threshold, running, last_cleanup, threads, stopper>>

\* StorageManager.get_module_storage(module_id)
GetModuleStorage(module_id) ==
    LET r == GetBackendFn(backends, next_id, ModuleName(module_id), "json")
    IN /\ backends' = r.backends
       /\ next_id' = IF r.created THEN next_id + 1 ELSE next_id
       /\ mlast' = MgrOp("get_module_storage", ModuleName(module_id), "", r.ret, r.created)
       /\ UNCHANGED cached_storages
       /\ UNCHANGED <<cacheVars, monVars, fileVars, codecVars, raceVars>>

\* StorageManager.get_module_cache(module_id, default_ttl)
GetModuleCache(module_id) ==
    LET name == ModuleName(module_id)
        created == name \notin DOMAIN cached_storages
        r == GetBackendFn(backends, next_id, name, "json")
        id == IF r.created THEN next_id + 1 ELSE next_id
        c == IF created THEN [id |-> id, backend |-> r.ret.id] ELSE cached_storages[name]
    IN /\ backends' = IF created THEN r.backends ELSE backends
       /\ cached_storages' = IF created THEN MapPut(cached_storages, name, c)
                             ELSE cached_storages
       /\ next_id' = IF created THEN id + 1 ELSE next_id
       /\ callbacks' = RegisterOnCreate(callbacks, created, c)
       /\ mlast' = MgrOp("get_module_cache", name, "", c, created)
       /\ UNCHANGED <<cacheVars, fileVars, codecVars, raceVars>>
       /\ UNCHANGED <<has_psutil, threshold, running, last_cleanup, threads, stopper>>

\* StorageManager.__init__: the shared monitor has been started, nothing handed out
MgrInit ==
    /\ CacheInit
    /\ max_entries = MaxCapacity
    /\ has_psutil = TRUE
    /\ threshold = MaxPercent
    /\ running = TRUE
    /\ callbacks = <<>>
    /\ last_cleanup = -1
    /\ threads = <<NewThread>>
    /\ stopper = "none"
    /\ ManagerIdle
    /\ FileIdle
    /\ CodecIdle
    /\ RaceIdle

MgrNext ==
    \/ \E name \in Names, backend_type \in BackendTypes : GetBackend(name, backend_type)
    \/ \E name \in Names : GetCachedStorage(name)
    \/ \E m \in 1..NumModules : GetModuleStorage(m)
    \/ \E m \in 1..NumModules : GetModuleCache(m)

MgrSpec == MgrInit /\ [][MgrNext]_vars

\* ------------------------------- JSONFileBackend and PickleFileBackend
\* Values by their Python type: an int, a datetime, a str in ISO date format, an
\* object that pickles but is not JSON-serializable (a set), and one that is
\* neither (a lambda).
IntValue == 1
DateTimeValue == 2
IsoStrValue == 3
ObjectValue == 4
LambdaValue == 5

FileValues == {IntValue, DateTimeValue, IsoStrValue, ObjectValue, LambdaValue}

\* the module's own keys "k" and "k_at": <<"", k, suffix>>
FileKeys == {<<"", k, sfx>> : k \in 1..NumFileKeys, sfx \in {"", "_at"}}

FileCacheKeys == 1..NumFileCacheKeys

\* key.endswith("_at")
EndsWithAt(key) == Len(key) = 3 /\ key[3] = "_at"

\* what json.dump can write of a value, with DateTimeEncoder for what it cannot
JsonValueOk(v) == v \in {IntValue, DateTimeValue, IsoStrValue}

\* DateTimeEncoder.default: a datetime is written as its ISO string
JsonEncodeValue(v) == IF v = DateTimeValue THEN IsoStrValue ELSE v

\* json.dump of one item of _data; a cache_ key holds an entry dict whose
\* expires_at and created_at are datetimes, written as <<"iso", t>>
JsonEncodeItem(key, x) ==
    IF StartsWithCache(key)
    THEN [value |-> JsonEncodeValue(x.value),
          expires_at |-> <<"iso", x.expires_at>>,
          created_at |-> <<"iso", x.created_at>>]
    ELSE JsonEncodeValue(x)

\* DateTimeDecoder, the object_hook of json.load: a str under a key that ends with
\* "_at" becomes a datetime when it parses as one
DateTimeDecoder(key, y) ==
    IF StartsWithCache(key)
    THEN [value |-> y.value, expires_at |-> y.expires_at[2], created_at |-> y.created_at[2]]
    ELSE IF EndsWithAt(key) /\ y = IsoStrValue THEN DateTimeValue
    ELSE y

\* what pickle.dump can write of a value
PickleValueOk(v) == v # LambdaValue

ValueOf(key, x) == IF StartsWithCache(key) THEN x.value ELSE x

\* the whole of _data can be serialized by the backend's codec
Serializable(kind, data) ==
    \A key \in DOMAIN data :
        IF kind = "json" THEN JsonValueOk(ValueOf(key, data[key]))
        ELSE PickleValueOk(ValueOf(key, data[key]))

\* the document json.dump / pickle.dump writes
Document(kind, data) ==
    [state |-> "doc",
     data |-> IF kind = "json" THEN [key \in DOMAIN data |-> JsonEncodeItem(key, data[key])]
              ELSE data]

\* a file that is not a document of the codec: zero bytes, a document cut short,
\* bytes that are no document, text that is not UTF-8
DamagedStates == {"empty", "truncated", "garbage", "bad_utf8"}

\* outcomes of the file system in _save: the write goes through, open raises
\* OSError, or write raises OSError after open has truncated the file
IOOutcomes == {"ok", "open_fails", "write_fails"}

\* _load: the _data of a backend constructed over the file, or what the
\* constructor raises
LoadFn(kind, f) ==
    IF f.state = "missing" THEN [raised |-> "", data |-> EmptyMap]
    ELSE IF f.state = "doc"
    THEN [raised |-> "",
          data |-> IF kind = "json"
                   THEN [key \in DOMAIN f.data |-> DateTimeDecoder(key, f.data[key])]
                   ELSE f.data]
    ELSE IF kind = "json"
    THEN IF f.state = "bad_utf8"
         THEN [raised |-> "UnicodeDecodeError", data |-> EmptyMap]
         ELSE [raised |-> "", data |-> EmptyMap]
    ELSE IF f.state = "empty"
         THEN [raised |-> "EOFError", data |-> EmptyMap]
         ELSE [raised |-> "", data |-> EmptyMap]

\* _save: the file afterwards, what _save raises, and whether the document was written
SaveFn(kind, data, f, io) ==
    IF io = "open_fails" THEN [file |-> f, raised |-> "", saved |-> FALSE]
    ELSE IF ~Serializable(kind, data)
    THEN IF kind = "json"
         THEN [file |-> [state |-> "truncated"], raised |-> "TypeError", saved |-> FALSE]
         ELSE [file |-> [state |-> "empty"], raised |-> "PicklingError", saved |-> FALSE]
    ELSE IF io = "write_fails"
    THEN [file |-> [state |-> "truncated"], raised |-> "", saved |-> FALSE]
    ELSE [file |-> Document(kind, data), raised |-> "", saved |-> TRUE]

\* the record of a file operation; synced says that the last _save wrote the
\* document, or that _data was loaded from the file, and nothing damaged it since
FileOp(name, key, val, raised, ret, synced) ==
    [op |-> name, key |-> key, val |-> val, raised |-> raised, ret |-> ret,
     synced |-> synced, flip |-> 1 - flast.flip]

\* JSONFileBackend.set / PickleFileBackend.set
FileSet(key, v, io) ==
    LET data == BackendSet(backend, key, v)
        sv == SaveFn(fkind, data, file, io)
    IN /\ backend' = data
       /\ file' = sv.file
       /\ flast' = FileOp("set", 0, 0, sv.raised, 0, sv.saved)
       /\ UNCHANGED <<max_entries, cache, access_order, stats, now, recency, rt, last>>
       /\ UNCHANGED <<fkind, monVars, mgrVars, codecVars, raceVars>>

\* JSONFileBackend.delete / PickleFileBackend.delete; ret is 1 for True
FileDelete(key, io) ==
    LET found == BackendDeleteResult(backend, key)
        data == BackendDelete(backend, key)
        sv == SaveFn(fkind, data, file, io)
    IN /\ backend' = data
       /\ file' = IF found THEN sv.file ELSE file
       /\ flast' = IF found
                   THEN FileOp("delete", 0, 0, sv.raised, 1, sv.saved)
                   ELSE FileOp("delete", 0, 0, "", 0, flast.synced)
       /\ UNCHANGED <<max_entries, cache, access_order, stats, now, recency, rt, last>>
       /\ UNCHANGED <<fkind, monVars, mgrVars, codecVars, raceVars>>

\* whether clear calls _save: JSONFileBackend.clear does; in PickleFileBackend the
\* call stands after the return of keys() and clear has none
ClearSaves(kind) == kind = "json"

\* JSONFileBackend.clear / PickleFileBackend.clear
FileClear(io) ==
    LET data == BackendClearAll(backend)
        sv == SaveFn(fkind, data, file, io)
    IN /\ backend' = data
       /\ file' = IF ClearSaves(fkind) THEN sv.file ELSE file
       /\ flast' = IF ClearSaves(fkind)
                   THEN FileOp("clear", 0, 0, sv.raised, 0, sv.saved)
                   ELSE FileOp("clear", 0, 0, "", 0, flast.synced)
       /\ UNCHANGED <<max_entries, cache, access_order, stats, now, recency, rt, last>>
       /\ UNCHANGED <<fkind, monVars, mgrVars, codecVars, raceVars>>

\* A backend is constructed over the file and a CachedStorage over it (a restart),
\* then get(key, default) is called on the backend; ret is what get returns. When
\* the constructor raises there is no new backend.
Reopen(key) ==
    LET ld == LoadFn(fkind, file)
    IN /\ IF ld.raised = ""
          THEN /\ backend' = ld.data
               /\ cache' = EmptyMap
               /\ access_order' = <<>>
               /\ stats' = ZeroStats
               /\ recency' = <<>>
               /\ flast' = FileOp("open", 0, 0, "",
                                  IF key \in DOMAIN ld.data THEN ld.data[key] ELSE Default,
                                  TRUE)
          ELSE /\ UNCHANGED <<backend, cache, access_order, stats, recency>>
               /\ flast' = FileOp("open", 0, 0, ld.raised, 0, flast.synced)
       /\ rt' = NoRT
       /\ UNCHANGED <<max_entries, now, last>>
       /\ UNCHANGED <<fkind, file, monVars, mgrVars, codecVars, raceVars>>

\* the file is damaged from outside the backend (a crash in mid-write, another program)
Damage(d) ==
    /\ file' = [state |-> d]
    /\ flast' = FileOp("damage", 0, 0, "", 0, FALSE)
    /\ UNCHANGED cacheVars
    /\ UNCHANGED <<fkind, monVars, mgrVars, codecVars, raceVars>>

\* CachedStorage.set(key, value) over the file-backed backend: Set, with the _save
\* of backend.set; what _save raises leaves set
SetPersist(k, v, io) ==
    LET ck == GetCacheKey(k)
        cache_entry == [value |-> v, expires_at |-> now + DefaultTTL, created_at |-> now]
        s1 == EnsureCacheSpace(HotState, max_entries)
        data == BackendSet(backend, ck, cache_entry)
        sv == SaveFn(fkind, data, file, io)
    IN /\ s1.evictions <= MaxEvictions
       /\ cache' = MapPut(s1.cache, ck, cache_entry)
       /\ access_order' = UpdateAccessOrder(s1.order, ck)
       /\ stats' = [stats EXCEPT !.evictions = s1.evictions]
       /\ backend' = data
       /\ file' = sv.file
       /\ recency' = Keep(recency, DOMAIN cache' \ {ck}) \o <<ck>>
       /\ rt' = NoRT
       /\ flast' = FileOp("cached_set", k, v, sv.raised, 0, sv.saved)
       /\ UNCHANGED <<max_entries, now, last>>
       /\ UNCHANGED <<fkind, monVars, mgrVars, codecVars, raceVars>>

FileInit ==
    /\ CacheInit
    /\ max_entries = LruCapacity
    /\ MonitorIdle
    /\ ManagerIdle
    /\ fkind \in {"json", "pickle"}
    /\ file = NoFile
    /\ flast = NoFileOp
    /\ CodecIdle
    /\ RaceIdle

FileNext ==
    \/ \E key \in FileKeys, v \in FileValues, io \in IOOutcomes : FileSet(key, v, io)
    \/ \E key \in FileKeys, io \in IOOutcomes : FileDelete(key, io)
    \/ \E io \in IOOutcomes : FileClear(io)
    \/ \E key \in FileKeys : Reopen(key)
    \/ \E d \in DamagedStates : Damage(d)

FileSpec == FileInit /\ [][FileNext]_vars

\* A CachedStorage over the file-backed backend, with restarts.
PersistNext ==
    \/ \E k \in FileCacheKeys, v \in FileValues, io \in IOOutcomes : SetPersist(k, v, io)
    \/ \E k \in FileCacheKeys : Get(k)
    \/ \E key \in FileKeys : Reopen(key)

PersistSpec == FileInit /\ [][PersistNext]_vars

\* ---------------------------- CompressedCache and JsonCompressedCache
\* A Python value is a record with one field, named after its type:
\* [int |-> 1], [str |-> "a"], [list |-> <<items>>], [tuple |-> <<items>>],
\* [dict |-> <<<<key, value>>, ...>>] (in insertion order, keys distinct),
\* [set |-> {items}] and [function |-> TRUE] (a lambda).
TypeOf(v) == CHOOSE t \in DOMAIN v : TRUE

IntAtoms == {[int |-> n] : n \in 1..MaxInt}
Atoms == IntAtoms \cup {[str |-> s] : s \in {"a", "1"}}

SeqsUpTo(S, n) == UNION {[1..k -> S] : k \in 0..n}

DistinctKeys(d) == \A i, j \in 1..Len(d) : d[i][1] = d[j][1] => i = j

PyValues ==
    Atoms
    \cup {[list |-> s] : s \in SeqsUpTo(Atoms, MaxItems)}
    \cup {[tuple |-> s] : s \in SeqsUpTo(Atoms, MaxItems)}
    \cup {[dict |-> d] : d \in {x \in SeqsUpTo(Atoms \X Atoms, MaxDictLen) : DistinctKeys(x)}}
    \cup {[set |-> S] : S \in SUBSET IntAtoms}
    \cup {[function |-> TRUE]}

\* sys.getsizeof(obj), in bytes, of 64-bit CPython 3.11: the size of the
\* object itself, without the objects it refers to
GetSizeOf(v) ==
    CASE TypeOf(v) = "int" -> 28
      [] TypeOf(v) = "str" -> 49 + 1
      [] TypeOf(v) = "list" -> 56 + 8 * Len(v.list)
      [] TypeOf(v) = "tuple" -> 40 + 8 * Len(v.tuple)
      [] TypeOf(v) = "dict" ->
            IF v.dict = <<>> THEN 64
            ELSE IF \A i \in 1..Len(v.dict) : TypeOf(v.dict[i][1]) = "str" THEN 184
            ELSE 224
      [] TypeOf(v) = "set" -> 216
      [] TypeOf(v) = "function" -> 152

should_compress(v) ==
    GetSizeOf(v) >= compression_threshold /\ GetSizeOf(v) <= max_entry_size

\* ---- pickle: a sequence of opcodes, each with its argument
POp(name) == [op |-> name, arg |-> None]
PPush(a) ==
    [op |-> IF TypeOf(a) = "int" THEN "BININT1" ELSE "SHORT_BINUNICODE", arg |-> a]

PAtoms(s) == [i \in 1..Len(s) |-> PPush(s[i])]

RECURSIVE PPairs(_)
PPairs(d) ==
    IF d = <<>> THEN <<>>
    ELSE <<PPush(Head(d)[1]), PPush(Head(d)[2])>> \o PPairs(Tail(d))

\* the items of a set, in the order the pickler iterates them
RECURSIVE SetItems(_)
SetItems(S) ==
    IF S = {} THEN <<>>
    ELSE LET x == CHOOSE y \in S : \A z \in S : y.int <= z.int
         IN <<x>> \o SetItems(S \ {x})

\* pickle.dumps(obj, protocol=pickle.HIGHEST_PROTOCOL), without the FRAME
\* and MEMOIZE opcodes, which carry no data
PickleDumps(v) ==
    <<POp("PROTO")>> \o
    (CASE TypeOf(v) \in {"int", "str"} -> <<PPush(v)>>
       [] TypeOf(v) = "list" ->
            <<POp("EMPTY_LIST")>> \o
            (IF v.list = <<>> THEN <<>>
             ELSE <<POp("MARK")>> \o PAtoms(v.list) \o <<POp("APPENDS")>>)
       [] TypeOf(v) = "tuple" ->
            (CASE Len(v.tuple) = 0 -> <<POp("EMPTY_TUPLE")>>
               [] Len(v.tuple) = 1 -> PAtoms(v.tuple) \o <<POp("TUPLE1")>>
               [] Len(v.tuple) = 2 -> PAtoms(v.tuple) \o <<POp("TUPLE2")>>
               [] Len(v.tuple) = 3 -> PAtoms(v.tuple) \o <<POp("TUPLE3")>>
               [] OTHER -> <<POp("MARK")>> \o PAtoms(v.tuple) \o <<POp("TUPLE")>>)
       [] TypeOf(v) = "dict" ->
            <<POp("EMPTY_DICT")>> \o
            (CASE Len(v.dict) = 0 -> <<>>
               [] Len(v.dict) = 1 -> PPairs(v.dict) \o <<POp("SETITEM")>>
               [] OTHER -> <<POp("MARK")>> \o PPairs(v.dict) \o <<POp("SETITEMS")>>)
       [] TypeOf(v) = "set" ->
            <<POp("EMPTY_SET")>> \o
            (IF v.set = {} THEN <<>>
             ELSE <<POp("MARK")>> \o PAtoms(SetItems(v.set)) \o <<POp("ADDITEMS")>>))
    \o <<POp("STOP")>>

\* the mark object [mark |-> TRUE] of the unpickler's stack
IsMark(x) == "mark" \in DOMAIN x

\* the position of the topmost mark of the stack
TopMark(stack) == CHOOSE i \in 1..Len(stack) :
    IsMark(stack[i]) /\ \A j \in (i + 1)..Len(stack) : ~IsMark(stack[j])

\* dict[k] = v: replaces the value of a key the dict has, else adds the item
DictPut(d, k, v) ==
    IF \E i \in 1..Len(d) : d[i][1] = k
    THEN [i \in 1..Len(d) |-> IF d[i][1] = k THEN <<k, v>> ELSE d[i]]
    ELSE Append(d, <<k, v>>)

\* dict.update with the items k1, v1, k2, v2, ... of a flat sequence
RECURSIVE DictPutAll(_, _)
DictPutAll(d, kv) ==
    IF Len(kv) < 2 THEN d
    ELSE DictPutAll(DictPut(d, kv[1], kv[2]), SubSeq(kv, 3, Len(kv)))

Pop(stack, n) == SubSeq(stack, 1, Len(stack) - n)
Top(stack, n) == SubSeq(stack, Len(stack) - n + 1, Len(stack))

\* pickle.loads: the stack machine, one opcode after the other
RECURSIVE Unpickle(_, _)
Unpickle(ops, stack) ==
    LET o == Head(ops).op
        rest == Tail(ops)
        m == TopMark(stack)
        above == SubSeq(stack, m + 1, Len(stack))
        below == SubSeq(stack, 1, m - 1)
        obj_at(i) == stack[i]
    IN CASE o = "STOP" -> stack[Len(stack)]
         [] o = "PROTO" -> Unpickle(rest, stack)
         [] o \in {"BININT1", "SHORT_BINUNICODE"} -> Unpickle(rest, Append(stack, Head(ops).arg))
         [] o = "EMPTY_LIST" -> Unpickle(rest, Append(stack, [list |-> <<>>]))
         [] o = "EMPTY_TUPLE" -> Unpickle(rest, Append(stack, [tuple |-> <<>>]))
         [] o = "EMPTY_DICT" -> Unpickle(rest, Append(stack, [dict |-> <<>>]))
         [] o = "EMPTY_SET" -> Unpickle(rest, Append(stack, [set |-> {}]))
         [] o = "MARK" -> Unpickle(rest, Append(stack, [mark |-> TRUE]))
         [] o = "TUPLE1" -> Unpickle(rest, Append(Pop(stack, 1), [tuple |-> Top(stack, 1)]))
         [] o = "TUPLE2" -> Unpickle(rest, Append(Pop(stack, 2), [tuple |-> Top(stack, 2)]))
         [] o = "TUPLE3" -> Unpickle(rest, Append(Pop(stack, 3), [tuple |-> Top(stack, 3)]))
         [] o = "TUPLE" -> Unpickle(rest, Append(below, [tuple |-> above]))
         [] o = "APPENDS" ->
              Unpickle(rest, Append(Pop(below, 1),
                                    [list |-> obj_at(m - 1).list \o above]))
         [] o = "SETITEM" ->
              Unpickle(rest, Append(Pop(stack, 3),
                                    [dict |-> DictPut(obj_at(Len(stack) - 2).dict,
                                                      obj_at(Len(stack) - 1),
                                                      obj_at(Len(stack)))]))
         [] o = "SETITEMS" ->
              Unpickle(rest, Append(Pop(below, 1),
                                    [dict |-> DictPutAll(obj_at(m - 1).dict, above)]))
         [] o = "ADDITEMS" ->
              Unpickle(rest, Append(Pop(below, 1),
                                    [set |-> obj_at(m - 1).set \cup SeqSet(above)]))

\* ---- JSON: the text as a sequence of tokens
JTok(name) == [tok |-> name, arg |-> None]
JAtom(a) == [tok |-> IF TypeOf(a) = "int" THEN "number" ELSE "string", arg |-> a]
JAtoms(s) == [i \in 1..Len(s) |-> JAtom(s[i])]

\* the key of a JSON object is a string: an int key, here of one digit, is
\* written as str(key)
JKey(k) ==
    IF TypeOf(k) = "int"
    THEN [str |-> <<"0", "1", "2", "3", "4", "5", "6", "7", "8", "9">>[k.int + 1]]
    ELSE k

RECURSIVE JPairs(_)
JPairs(d) ==
    IF d = <<>> THEN <<>>
    ELSE <<JAtom(JKey(Head(d)[1])), JAtom(Head(d)[2])>> \o JPairs(Tail(d))

\* json.dumps(obj, ensure_ascii=False).encode("utf-8"): a list and a tuple
\* are both written as an array
JsonDumps(v) ==
    CASE TypeOf(v) \in {"int", "str"} -> <<JAtom(v)>>
      [] TypeOf(v) = "list" -> <<JTok("[")>> \o JAtoms(v.list) \o <<JTok("]")>>
      [] TypeOf(v) = "tuple" -> <<JTok("[")>> \o JAtoms(v.tuple) \o <<JTok("]")>>
      [] TypeOf(v) = "dict" -> <<JTok("{")>> \o JPairs(v.dict) \o <<JTok("}")>>

JArgs(toks) == [i \in 1..Len(toks) |-> toks[i].arg]

\* json.loads(text.decode("utf-8")): an array is read as a list, an object
\* as a dict whose later item replaces an earlier one of the same key
JsonLoads(toks) ==
    LET inner == SubSeq(toks, 2, Len(toks) - 1)
    IN CASE Head(toks).tok \in {"number", "string"} -> Head(toks).arg
         [] Head(toks).tok = "[" -> [list |-> JArgs(inner)]
         [] Head(toks).tok = "{" -> [dict |-> DictPutAll(<<>>, JArgs(inner))]

\* ---- gzip: the member's header, the deflated data and its trailer
GzipCompress(data) == [magic |-> "1f8b", deflated |-> data, isize |-> Len(data)]
GzipDecompress(member) == member.deflated

\* json.dumps raises TypeError for a set or a function, pickle.dumps
\* PicklingError for a lambda
Serializes(kind, v) ==
    IF kind = "json" THEN TypeOf(v) \notin {"set", "function"} ELSE TypeOf(v) # "function"
Dumps(kind, v) == IF kind = "json" THEN JsonDumps(v) ELSE PickleDumps(v)

\* pickle.loads / json.loads of decompress
Loads(kind, data) == IF kind = "json" THEN JsonLoads(data) ELSE Unpickle(data, <<>>)

\* CompressedCacheEntry(obj, compressed, original_size)
CompressedCacheEntry(original_data, compressed_data, original_size) ==
    [original_data |-> original_data, compressed_data |-> compressed_data,
     original_size |-> original_size]

\* compress(obj): a value the serializer refuses raises out of compress
Compress ==
    /\ compressed_entry = None
    /\ decompressed = None
    /\ LET ok == Serializes(codec, obj)
           serialized == Dumps(codec, obj)
       IN /\ compressed_entry' =
                IF ok THEN CompressedCacheEntry(obj, GzipCompress(serialized), Len(serialized))
                ELSE [raised |-> IF codec = "json" THEN "TypeError" ELSE "PicklingError"]
    /\ UNCHANGED <<codec, compression_threshold, max_entry_size, obj, decompressed>>
    /\ UNCHANGED <<cacheVars, monVars, mgrVars, fileVars, raceVars>>

\* decompress(compressed_entry)
Decompress ==
    /\ "compressed_data" \in DOMAIN compressed_entry
    /\ decompressed = None
    /\ decompressed' = [value |-> Loads(codec, GzipDecompress(compressed_entry.compressed_data))]
    /\ UNCHANGED <<codec, compression_threshold, max_entry_size, obj, compressed_entry>>
    /\ UNCHANGED <<cacheVars, monVars, mgrVars, fileVars, raceVars>>

\* a codec of either class, built with its arguments, and the object handed to it
CodecInit ==
    /\ CacheInit
    /\ max_entries = MaxCapacity
    /\ MonitorIdle
    /\ ManagerIdle
    /\ FileIdle
    /\ codec \in {"pickle", "json"}
    /\ compression_threshold \in {48, 64, DefaultCompressionThreshold}
    /\ max_entry_size \in {200, DefaultMaxEntrySize}
    /\ obj \in PyValues
    /\ compressed_entry = None
    /\ decompressed = None
    /\ RaceIdle

CodecNext ==
    \/ Compress
    \/ Decompress

CodecSpec == CodecInit /\ [][CodecNext]_vars

\* ------------------- CachedStorage under two threads (no lock in the class)
\* A module thread calls get, set and delete while the monitor thread runs
\* cleanup_expired, the callback registered for the cache. CachedStorage holds
\* no lock, so the threads interleave between the statements of set and
\* between the iterations of the two loops of cleanup_expired.

\* set, up to _ensure_cache_space(): the entry is built and room is made
SetBegin(k, v, ttl) ==
    LET t == IF ttl = 0 THEN DefaultTTL ELSE ttl
        s1 == EnsureCacheSpace(HotState, max_entries)
    IN /\ setter.pc = "idle"
       /\ s1.evictions <= MaxEvictions
       /\ cache' = s1.cache
       /\ access_order' = s1.order
       /\ stats' = [stats EXCEPT !.evictions = s1.evictions]
       /\ setter' = [pc |-> "store", cache_key |-> GetCacheKey(k),
                     cache_entry |-> [value |-> v, expires_at |-> now + t, created_at |-> now]]
       /\ UNCHANGED <<max_entries, backend, now, recency, rt, last, sweeper>>
       /\ UNCHANGED otherVars

\* self._cache[cache_key] = cache_entry
SetStore ==
    /\ setter.pc = "store"
    /\ cache' = MapPut(cache, setter.cache_key, setter.cache_entry)
    /\ setter' = [setter EXCEPT !.pc = "order"]
    /\ UNCHANGED <<max_entries, access_order, stats, backend, now, recency, rt, last, sweeper>>
    /\ UNCHANGED otherVars

\* self._update_access_order(cache_key)
SetOrder ==
    /\ setter.pc = "order"
    /\ access_order' = UpdateAccessOrder(access_order, setter.cache_key)
    /\ setter' = [setter EXCEPT !.pc = "backend"]
    /\ UNCHANGED <<max_entries, cache, stats, backend, now, recency, rt, last, sweeper>>
    /\ UNCHANGED otherVars

\* self.backend.set(cache_key, cache_entry), and set returns
SetBackend ==
    /\ setter.pc = "backend"
    /\ backend' = BackendSet(backend, setter.cache_key, setter.cache_entry)
    /\ setter' = SetterIdle
    /\ UNCHANGED <<max_entries, cache, access_order, stats, now, recency, rt, last, sweeper>>
    /\ UNCHANGED otherVars

\* cleanup_expired starts: expired_keys = [] and the iterator of self._cache.items(),
\* which remembers the size of the dict
SweepBegin ==
    /\ sweeper.pc = "idle"
    /\ sweeper' = [pc |-> "scan", used |-> Cardinality(DOMAIN cache), seen |-> {},
                   expired_keys |-> <<>>, raised |-> ""]
    /\ UNCHANGED <<cacheVars, setter>>
    /\ UNCHANGED otherVars

\* one iteration of the first loop: the iterator raises RuntimeError when the dict
\* has changed size, ends the loop when no item is left, else gives an item
SweepScan ==
    /\ sweeper.pc = "scan"
    /\ IF Cardinality(DOMAIN cache) # sweeper.used
       THEN sweeper' = [SweeperIdle EXCEPT !.raised = "RuntimeError"]
       ELSE IF DOMAIN cache \ sweeper.seen = {}
       THEN sweeper' = [sweeper EXCEPT !.pc = "remove"]
       ELSE \E cache_key \in DOMAIN cache \ sweeper.seen :
               sweeper' = [sweeper EXCEPT
                              !.seen = @ \cup {cache_key},
                              !.expired_keys = IF IsExpired(cache[cache_key], now)
                                               THEN Append(@, cache_key) ELSE @]
    /\ UNCHANGED <<cacheVars, setter>>
    /\ UNCHANGED otherVars

\* one iteration of the second loop, self._remove_from_cache(key), or its end
SweepRemove ==
    /\ sweeper.pc = "remove"
    /\ IF sweeper.expired_keys = <<>>
       THEN /\ sweeper' = SweeperIdle
            /\ UNCHANGED <<cache, access_order>>
       ELSE LET s1 == RemoveFromCache(HotState, Head(sweeper.expired_keys))
            IN /\ cache' = s1.cache
               /\ access_order' = s1.order
               /\ sweeper' = [sweeper EXCEPT !.expired_keys = Tail(@)]
    /\ UNCHANGED <<max_entries, stats, backend, now, recency, rt, last, setter>>
    /\ UNCHANGED otherVars

RaceInit ==
    /\ CacheInit
    /\ max_entries = LruCapacity
    /\ MonitorIdle
    /\ ManagerIdle
    /\ FileIdle
    /\ CodecIdle
    /\ RaceIdle

RaceNext ==
    \/ \E k \in Keys, ttl \in TTLs : SetBegin(k, 1, ttl)
    \/ SetStore
    \/ SetOrder
    \/ SetBackend
    \/ \E k \in Keys : setter.pc = "idle" /\ Get(k)
    \/ \E k \in Keys : setter.pc = "idle" /\ Delete(k)
    \/ SweepBegin
    \/ SweepScan
    \/ SweepRemove
    \/ Tick

RaceSpec == RaceInit /\ [][RaceNext]_vars

\* ------------------------------------------------------------ properties
\* the step is the operation `name`
Did(name) == last'.op = name /\ last' # last

StoredEntries(k) ==
    {cache[ck] : ck \in {GetCacheKey(k)} \cap DOMAIN cache}
        \cup {backend[ck] : ck \in {GetCacheKey(k)} \cap DOMAIN backend}

\* C1: whenever a set call returns, the hot map holds at most max_entries entries.
C1_SizeBoundAfterSet ==
    last.op = "set" => Cardinality(DOMAIN cache) <= max_entries

\* C2: the keys that a set of a key new to the hot map evicts are the least
\* recently used ones, a set and a get that returns the key's value both counting
\* as a use.
C2_SetEvictsLeastRecentlyUsed ==
    [][(Did("set") /\ GetCacheKey(last'.key) \notin DOMAIN cache) =>
        LET evicted == DOMAIN cache \ DOMAIN cache'
        IN evicted = SeqSet(Prefix(recency, Cardinality(evicted)))]_vars

\* C3: a get of a key whose stored entry (in the hot map, in the backend, or both)
\* has expires_at in the past returns the default and leaves the key out of the
\* hot map.
C3_ExpiredReadsDefault ==
    [][Did("get") =>
        LET k == last'.key
        IN (StoredEntries(k) # {} /\ \A e \in StoredEntries(k) : now > e.expires_at)
              => /\ last'.ret = Default
                 /\ GetCacheKey(k) \notin DOMAIN cache']_vars

C3_Witness ==
    /\ last.op = "get"
    /\ last.ret = Default
    /\ last.removed.hot = 1
    /\ GetCacheKey(last.key) \in DOMAIN backend
    /\ GetCacheKey(last.key) \notin DOMAIN cache

\* C4: after set(k, v), a drop of the hot map and a get(k) within the TTL, the get
\* has returned v and the entry set is back in the hot map.
C4_RoundTrip ==
    rt.phase = "got" =>
        /\ last.op = "get" /\ last.key = rt.key
        /\ last.ret = rt.val
        /\ GetCacheKey(rt.key) \in DOMAIN cache
        /\ cache[GetCacheKey(rt.key)].value = rt.val
        /\ cache[GetCacheKey(rt.key)].expires_at = rt.exp

C4_Witness ==
    /\ rt.phase = "got"
    /\ last.ret = rt.val
    /\ GetCacheKey(rt.key) \in DOMAIN cache

\* C5: clear empties the hot map and the order list, zeroes hits, misses and
\* evictions, removes every cache_ key from the backend and leaves every other
\* backend key with its value.
C5_ClearIsolation ==
    [][Did("clear") =>
        /\ cache' = EmptyMap
        /\ access_order' = <<>>
        /\ stats'.hits = 0 /\ stats'.misses = 0 /\ stats'.evictions = 0
        /\ \A key \in DOMAIN backend' : ~StartsWithCache(key)
        /\ \A key \in DOMAIN backend :
              ~StartsWithCache(key) => key \in DOMAIN backend' /\ backend'[key] = backend[key]
        /\ DOMAIN backend' \subseteq DOMAIN backend]_vars

C5_Witness ==
    /\ last.op = "clear"
    /\ last.removed.hot >= 1
    /\ last.removed.cold >= 2
    /\ \E key \in DOMAIN backend : ~StartsWithCache(key)

\* C6: a get that returns a cached value adds one to hits, a get that returns the
\* default adds one to misses, and get_stats reports hit_rate = hits / (hits + misses).
C6_StatsCountReads ==
    [][Did("get") =>
        LET h == stats.hits + (IF last'.ret # Default THEN 1 ELSE 0)
            m == stats.misses + (IF last'.ret = Default THEN 1 ELSE 0)
        IN /\ GetStats'.hits = h
           /\ GetStats'.misses = m
           /\ GetStats'.hit_rate = <<h, h + m>>]_vars

\* C7: delete removes the key from the hot map and the backend and returns true
\* exactly when the key was in the hot map or in the backend.
C7_DeleteReportsEither ==
    [][Did("delete") =>
        LET ck == GetCacheKey(last'.key)
        IN /\ ck \notin DOMAIN cache'
           /\ ck \notin DOMAIN backend'
           /\ last'.ret = (ck \in DOMAIN cache \/ ck \in DOMAIN backend)]_vars

\* C8: cleanup_expired removes from the hot map and the order list exactly the hot
\* entries whose expires_at has passed, and leaves the backend and the counters alone.
C8_CleanupExpiredExact ==
    [][Did("cleanup_expired") =>
        LET dead == {ck \in DOMAIN cache : now > cache[ck].expires_at}
        IN /\ cache' = [ck \in DOMAIN cache \ dead |-> cache[ck]]
           /\ access_order' = Keep(access_order, SeqSet(access_order) \ dead)
           /\ backend' = backend
           /\ stats' = stats]_vars

C8_Witness ==
    /\ last.op = "cleanup_expired"
    /\ last.removed.hot >= 1
    /\ \E ck \in DOMAIN cache : now <= cache[ck].expires_at

\* C9: cleanup_lru(count) removes min(count, size) entries from the hot map, the
\* oldest in the access order, and adds exactly that number to the eviction counter.
C9_CleanupLruCounts ==
    [][Did("cleanup_lru") =>
        LET size == Cardinality(DOMAIN cache)
            c == IF last'.arg = -1 THEN Max(1, size \div LruFraction) ELSE last'.arg
            gone == DOMAIN cache \ DOMAIN cache'
        IN /\ Cardinality(gone) = Min(c, size)
           /\ gone = SeqSet(Prefix(Keep(access_order, DOMAIN cache), c))
           /\ stats'.evictions = stats.evictions + Cardinality(gone)]_vars

\* C10: in a monitor cycle whose memory sample is at or above the threshold,
\* should_cleanup is true and, once the cycle has run, the callbacks invoked are
\* those registered when the cycle read the list, each once per registration and
\* in registration order.
C10_PressureRunsEveryCallback ==
    \A t \in ThreadIds :
        (threads[t].pc \in {"copy", "call", "sleep"}
            /\ threads[t].sampled /\ threads[t].pct >= threshold)
        => /\ threads[t].should
           /\ threads[t].pc = "sleep" => threads[t].invoked = threads[t].registered

C10_Witness ==
    \E t \in ThreadIds :
        /\ threads[t].pc = "sleep"
        /\ threads[t].sampled /\ threads[t].pct >= threshold
        /\ Len(threads[t].invoked) = 2
        /\ threads[t].invoked[1] # threads[t].invoked[2]
        /\ last_cleanup # -1

\* a step of a monitor thread: the thread list changes and no start or stop does it
ThreadStep == threads' # threads /\ running' = running

\* C11: in a cycle where a callback raises, the thread's steps from the raise on are
\* the remaining callbacks, then the end of the cleanup with every callback of the list
\* invoked and last_cleanup written, then the end of the sleep back at the loop test,
\* which enters the next cycle whenever the monitor is still running.
C11_RaisingCallbackIsContained ==
    [][ThreadStep =>
        \A t \in ThreadIds :
            ((threads[t].raised # 0 \/ threads'[t].raised # 0) /\ threads'[t] # threads[t]) =>
                \/ /\ threads[t].pc = "call"
                   /\ threads'[t].pc = "call"
                   /\ Len(threads'[t].invoked) = Len(threads[t].invoked) + 1
                \/ /\ threads[t].pc = "call"
                   /\ threads'[t].pc = "sleep"
                   /\ threads'[t].invoked = threads[t].registered
                   /\ threads'[t].stamped
                   /\ last_cleanup' = now
                \/ /\ threads[t].pc = "sleep"
                   /\ threads'[t].pc = "test"
                \/ /\ threads[t].pc = "test"
                   /\ threads'[t].pc = (IF running THEN "check" ELSE "done")]_vars

C11_Witness ==
    \E t \in ThreadIds :
        /\ threads[t].pc = "test"
        /\ threads[t].raised = 1
        /\ Len(threads[t].invoked) = 2
        /\ threads[t].stamped
        /\ running

\* C12: in a cycle whose memory sample was not taken (psutil missing, or the
\* sampling call raised) no cleanup callback is invoked, whatever the threshold.
C12_UnknownUsageNeverCleans ==
    \A t \in ThreadIds :
        (threads[t].pc \in {"copy", "call", "sleep"} /\ ~threads[t].sampled)
            => threads[t].invoked = <<>>

\* C13: once stop_monitoring has returned, and until monitoring is started again,
\* no monitor thread is still in its interval sleep.
C13_StopHaltsSleepingLoop ==
    stopper = "returned" => \A t \in ThreadIds : threads[t].pc # "sleep"

\* the step is the manager call `name_of_op`
MgrDid(name_of_op) == mlast' # mlast /\ mlast'.op = name_of_op

\* C14: get_backend with a supported kind returns a backend of that kind, and the
\* backend it returned before for the same name and kind.
C14_GetBackendMemoizedPerNameAndKind ==
    [][(MgrDid("get_backend") /\ mlast'.arg \in SupportedTypes) =>
        /\ mlast'.ret # ValueError
        /\ mlast'.ret.kind = mlast'.arg
        /\ (mlast'.name \in DOMAIN backends /\ backends[mlast'.name].kind = mlast'.arg)
              => mlast'.ret = backends[mlast'.name]]_vars

\* the number of times x occurs in the list s
Count(s, x) == Cardinality({i \in 1..Len(s) : s[i] = x})

\* C15: get_cached_storage returns the instance it returned before for the same
\* name, a new one registers its cleanup_expired, a repeated request registers
\* nothing, and every cache handed out is registered exactly once.
C15_CachedStorageOncePerName ==
    [][MgrDid("get_cached_storage") =>
        /\ mlast'.name \in DOMAIN cached_storages
              => /\ mlast'.ret = cached_storages[mlast'.name]
                 /\ callbacks' = callbacks
        /\ mlast'.name \notin DOMAIN cached_storages
              => /\ \A n \in DOMAIN cached_storages : cached_storages[n].id # mlast'.ret.id
                 /\ callbacks' = Append(callbacks, CleanupExpiredOf(mlast'.ret))
        /\ \A n \in DOMAIN cached_storages' :
              Count(callbacks', CleanupExpiredOf(cached_storages'[n])) = 1]_vars

C15_Witness ==
    /\ mlast.op = "get_cached_storage"
    /\ ~mlast.created
    /\ Cardinality(DOMAIN cached_storages) = 2
    /\ Len(callbacks) = 2

\* C16: get_backend with a kind other than json, pickle and memory raises and
\* returns no backend, whether or not the name has a backend already.
C16_UnsupportedKindRaises ==
    [][(MgrDid("get_backend") /\ mlast'.arg \notin SupportedTypes) =>
        /\ mlast'.ret = ValueError
        /\ backends' = backends]_vars

\* the step is the file operation `name`
FDid(name) == flast'.flip # flast.flip /\ flast'.op = name

\* C17: a CachedStorage.set whose backend _save does not write the document raises
\* nothing, and a get of the same key that follows it returns the value set.
C17_FailedWriteIsSwallowed ==
    [][/\ (FDid("cached_set") /\ ~flast'.synced) => flast'.raised = ""
       /\ (Did("get") /\ flast.op = "cached_set" /\ ~flast.synced /\ flast.key = last'.key)
             => last'.ret = flast.val]_vars

\* C18: a backend constructed over a file that is missing or is not a document of
\* its codec raises nothing, starts empty, and get returns the default.
C18_CorruptFileLoadsEmpty ==
    [][(FDid("open") /\ file.state # "doc") =>
        /\ flast'.raised = ""
        /\ backend' = EmptyMap
        /\ flast'.ret = Default]_vars

\* C19: whenever no _save has failed and nothing has damaged the file since the
\* data and the file last agreed, a backend constructed over the file holds the
\* keys and values of the live backend.
C19_FileMirrorsLiveBackend ==
    flast.synced => LoadFn(fkind, file) = [raised |-> "", data |-> backend]

\* C20: whenever should_compress(v) is true, decompress(compress(v)) equals v,
\* with the pickle codec and with the JSON codec.
C20_RoundTripReturnsValue ==
    ("value" \in DOMAIN decompressed /\ should_compress(obj)) => decompressed.value = obj

\* C21: a get that restores an entry from the backend into the hot map leaves the
\* hot map with at most max_entries entries.
C21_RestoreKeepsCapacity ==
    [][(Did("get") /\ DOMAIN cache' # DOMAIN cache /\ DOMAIN cache \subseteq DOMAIN cache')
          => Cardinality(DOMAIN cache') <= max_entries]_vars

\* C22: a get of a key whose stored entry is expired returns the default and
\* leaves the key neither in the hot map nor in the backend.
C22_ExpiredGetPrunes ==
    [][Did("get") =>
        LET k == last'.key
        IN (StoredEntries(k) # {} /\ \A e \in StoredEntries(k) : IsExpired(e, now))
              => /\ last'.ret = Default
                 /\ GetCacheKey(k) \notin DOMAIN cache'
                 /\ GetCacheKey(k) \notin DOMAIN backend']_vars

\* C23: no operation other than set changes the expires_at of a stored entry or
\* stores an entry that was not stored for the key, in the hot map or in the
\* backend, and a get that returns a value returns the value of a stored entry
\* whose expires_at has not passed.
C23_RestoreKeepsExpiry ==
    [][/\ ~Did("set") => \A k \in Keys : StoredEntries(k)' \subseteq StoredEntries(k)
       /\ (Did("get") /\ last'.ret # Default) =>
             \E e \in StoredEntries(last'.key) : e.value = last'.ret /\ now <= e.expires_at]_vars

C23_Witness ==
    /\ last.op = "get"
    /\ last.ret # Default
    /\ GetCacheKey(last.key) \in DOMAIN cache
    /\ GetCacheKey(last.key) \notin SeqSet(access_order)
    /\ cache[GetCacheKey(last.key)] = backend[GetCacheKey(last.key)]
    /\ now > cache[GetCacheKey(last.key)].created_at

\* C24: the calls of the two threads on one CachedStorage exclude each other: a
\* cleanup_expired of the monitor thread is never in progress while a set of the
\* module thread is, so neither runs against an intermediate state of the other.
C24_CallsAreSerialized ==
    ~(setter.pc # "idle" /\ sweeper.pc # "idle")

\* C30: an entry that cleanup_expired takes out of the hot map is expired at the
\* moment it is taken out, whatever a set of the module thread has stored
\* since the sweep began.
C30_SweepRemovesOnlyExpired ==
    [][(sweeper.pc = "remove" /\ sweeper' # sweeper) =>
          \A ck \in DOMAIN cache \ DOMAIN cache' : IsExpired(cache[ck], now)]_vars

\* C25: with register_cleanup_callback and unregister_cleanup_callback running
\* between the steps of a monitor cycle, the cycle invokes the callbacks of the
\* list as it was when the cycle copied it, each once and in order, whatever the
\* list has become since; no step of the cycle changes the list, and a
\* registration or unregistration changes the list by its one callback only.
C25_CycleIteratesSnapshot ==
    [][/\ ThreadStep =>
            /\ callbacks' = callbacks
            /\ \A t \in ThreadIds :
                  (threads[t].pc = "call" /\ threads'[t] # threads[t]) =>
                     /\ threads'[t].registered = threads[t].registered
                     /\ threads'[t].invoked =
                           Prefix(threads[t].registered, Len(threads'[t].invoked))
                     /\ threads'[t].pc = "sleep" => threads'[t].invoked = threads[t].registered
       /\ callbacks' # callbacks =>
            /\ threads' = threads
            /\ \E cb \in Callbacks :
                  \/ callbacks' = Append(callbacks, cb)
                  \/ cb \in SeqSet(callbacks) /\ callbacks' = ListRemove(callbacks, cb)]_vars

C25_Witness ==
    \E t \in ThreadIds :
        /\ threads[t].pc = "call"
        /\ Len(threads[t].registered) = 2
        /\ threads[t].invoked = <<threads[t].registered[1]>>
        /\ threads[t].registered[1] \notin SeqSet(callbacks)
        /\ threads[t].registered[2] \in SeqSet(callbacks)

\* C26: no backend instance underlies two CachedStorage instances, the backend
\* that get_module_storage returns underlies no CachedStorage, and the cache that
\* get_module_cache returns is over a backend that the manager has not handed out.
C26_BackendHasOneOwner ==
    [][/\ \A n1, n2 \in DOMAIN cached_storages' :
             cached_storages'[n1].backend = cached_storages'[n2].backend => n1 = n2
       /\ MgrDid("get_module_storage") =>
             \A n \in DOMAIN cached_storages' : cached_storages'[n].backend # mlast'.ret.id
       /\ MgrDid("get_module_cache") =>
             \A n \in DOMAIN backends : backends[n].id # mlast'.ret.backend]_vars

\* C27: over every sequence of start_monitoring and stop_monitoring calls, at most
\* one thread is in _monitor_loop at any time: a thread that was told to stop
\* is gone before another one cycles.
C27_AtMostOneLoop ==
    Cardinality({t \in ThreadIds : Alive(threads[t])}) <= 1

\* C28: after every operation the order list holds every key of the hot map
\* exactly once and no other key.
C28_OrderListMatchesHotMap ==
    /\ SeqSet(access_order) = DOMAIN cache
    /\ Len(access_order) = Cardinality(DOMAIN cache)

\* C29: a set of a key that is in the hot map leaves the other keys of the hot
\* map in it and leaves the eviction counter as it was.
C29_OverwriteEvictsNothing ==
    [][(Did("set") /\ GetCacheKey(last'.key) \in DOMAIN cache) =>
          /\ DOMAIN cache' = DOMAIN cache
          /\ stats'.evictions = stats.evictions]_vars

====
